---- MODULE Spec2Model ----
(***************************************************************************)
(* The aws_quicksight_group resource of internal/service/quicksight/       *)
(* group.go: the schema's namespace validation, the four lifecycle         *)
(* handlers (create, read, update, delete), the import passthrough and     *)
(* GroupParseID.                                                           *)
(*                                                                         *)
(* A Go string is a sequence of one-character strings, so that             *)
(* strings.SplitN and fmt.Sprintf are computed character by character.     *)
(* The QuickSight service is outside the repository: every remote call     *)
(* answers with any outcome and any response drawn from small sets.        *)
(***************************************************************************)
EXTENDS Integers, Sequences, FiniteSets, TLC

VARIABLES
    cfg,        \* the resource's configuration block
    phase,      \* "configured" (not yet validated), "rejected", "planned"
    id,         \* d.Id(): the stored identifier
    attrs,      \* the attributes held by d (schema.ResourceData)
    origin,     \* how the identifier came to be stored: "none", "create", "import"
    createdId,  \* the identifier as first stored by Create or Import
    anyCall,    \* TRUE once any remote call was issued for the resource
    last        \* what the last handler run did

vars == <<cfg, phase, id, attrs, origin, createdId, anyCall, last>>

-----------------------------------------------------------------------------
(* Bounds of the model.                                                    *)

\* Longest identifier handed to Import.
MaxIdLen == 5

\* StringLenBetween(1, 63)
NamespaceMinLen == 1
NamespaceMaxLen == 63

-----------------------------------------------------------------------------
(* Strings.                                                                *)

Sep == "/"

RECURSIVE Repeat(_, _)
Repeat(c, n) == IF n <= 0 THEN <<>> ELSE <<c>> \o Repeat(c, n - 1)

RECURSIVE StringsUpTo(_, _)
StringsUpTo(chars, n) ==
    IF n = 0 THEN {<<>>}
    ELSE LET shorter == StringsUpTo(chars, n - 1)
         IN  shorter \cup {Append(s, c) : s \in {t \in shorter : Len(t) = n - 1}, c \in chars}

\* strings.Index(s, sep) for a one-character sep, 1-based; 0 when absent.
Index(s, sep) ==
    IF \E i \in 1..Len(s) : s[i] = sep
    THEN CHOOSE i \in 1..Len(s) : s[i] = sep /\ \A j \in 1..(i - 1) : s[j] # sep
    ELSE 0

\* strings.SplitN(s, sep, n): n = 0 gives nothing, n > 0 at most n substrings
\* (the last one is the unsplit remainder), n < 0 all substrings.
RECURSIVE SplitN(_, _, _)
SplitN(s, sep, n) ==
    IF n = 0 THEN <<>>
    ELSE IF n = 1 \/ Index(s, sep) = 0 THEN <<s>>
    ELSE LET i == Index(s, sep)
         IN  <<SubSeq(s, 1, i - 1)>> \o SplitN(SubSeq(s, i + 1, Len(s)), sep, n - 1)

\* fmt.Sprintf("%s/%s/%s", a, n, g)
SprintfID(a, n, g) == a \o <<Sep>> \o n \o <<Sep>> \o g

DefaultGroupNamespace == <<"d", "e", "f", "a", "u", "l", "t">>

-----------------------------------------------------------------------------
(* GroupParseID.                                                           *)

\* GroupParseID with the split limited to two substrings.
GroupParseID_SplitTwo(s) ==
    LET parts == SplitN(s, Sep, 2)
    IN  IF Len(parts) < 3 \/ parts[1] = <<>> \/ parts[2] = <<>> \/ parts[3] = <<>>
        THEN [err |-> TRUE, awsAccountID |-> <<>>, namespace |-> <<>>, groupName |-> <<>>]
        ELSE [err |-> FALSE, awsAccountID |-> parts[1], namespace |-> parts[2],
              groupName |-> parts[3]]

\* GroupParseID without the test for an empty group name.
GroupParseID_NoNameTest(s) ==
    LET parts == SplitN(s, Sep, 3)
    IN  IF Len(parts) < 3 \/ parts[1] = <<>> \/ parts[2] = <<>>
        THEN [err |-> TRUE, awsAccountID |-> <<>>, namespace |-> <<>>, groupName |-> <<>>]
        ELSE [err |-> FALSE, awsAccountID |-> parts[1], namespace |-> parts[2],
              groupName |-> parts[3]]

GroupParseID(s) ==
    LET parts == SplitN(s, Sep, 3)
    IN  IF Len(parts) < 3 \/ parts[1] = <<>> \/ parts[2] = <<>> \/ parts[3] = <<>>
        THEN [err |-> TRUE, awsAccountID |-> <<>>, namespace |-> <<>>, groupName |-> <<>>]
        ELSE [err |-> FALSE, awsAccountID |-> parts[1], namespace |-> parts[2],
              groupName |-> parts[3]]

-----------------------------------------------------------------------------
(* The schema: the namespace attribute's ValidateFunc.                     *)

Lower == {"a", "b", "c", "d", "e", "f", "g", "h", "i", "j", "k", "l", "m",
          "n", "o", "p", "q", "r", "s", "t", "u", "v", "w", "x", "y", "z"}
Upper == {"A", "B", "C", "D", "E", "F", "G", "H", "I", "J", "K", "L", "M",
          "N", "O", "P", "Q", "R", "S", "T", "U", "V", "W", "X", "Y", "Z"}
Digit == {"0", "1", "2", "3", "4", "5", "6", "7", "8", "9"}

\* The character class of ^[a-zA-Z0-9._-]*$
NamespaceChars == Lower \cup Upper \cup Digit \cup {".", "_", "-"}

\* StringLenBetween with the upper end off by one.
StringLenBetween_OffByOne(v) == Len(v) >= NamespaceMinLen /\ Len(v) <= NamespaceMaxLen + 1

\* validation.StringLenBetween(1, 63)
StringLenBetween(v) == Len(v) >= NamespaceMinLen /\ Len(v) <= NamespaceMaxLen

\* validation.StringMatch(^[a-zA-Z0-9._-]*$)
StringMatch(v) == \A i \in 1..Len(v) : v[i] \in NamespaceChars

\* validation.All(StringLenBetween, StringMatch), run on a configured namespace
\* only: an omitted namespace takes the Default and is not validated.
NamespaceValidateFunc(ns) == ns.set => (StringLenBetween(ns.val) /\ StringMatch(ns.val))

\* d.Get("namespace") on a planned resource: the configured value, else Default.
NamespaceOrDefault(ns) == IF ns.set THEN ns.val ELSE DefaultGroupNamespace

-----------------------------------------------------------------------------
(* Inputs: configurations, the provider's account, the service's answers.  *)

\* meta.(*conns.AWSClient).AccountID
MetaAccountID == <<"9">>

\* aws_account_id as configured; the empty string is "not configured" for GetOk.
ConfigAccountIDs == {<<>>, <<"1">>}

ConfigNamespaces ==
    {[set |-> FALSE, val |-> <<>>]} \cup
    {[set |-> TRUE, val |-> v] :
        v \in {<<>>, <<"n">>, <<"N", "-">>, <<"n", "/">>, <<"n", "!">>,
               Repeat("a", NamespaceMaxLen), Repeat("a", NamespaceMaxLen + 1)}}

ConfigGroupNames == {<<"g">>, <<"g", "/", "h">>}

Descriptions == {<<>>, <<"x">>}

Arns == {<<"r">>}

Configs ==
    [aws_account_id : ConfigAccountIDs, namespace : ConfigNamespaces,
     group_name : ConfigGroupNames, description : Descriptions]

NotFound == "ResourceNotFoundException"
Failures == {NotFound, "InternalFailureException"}

NoGroup == [Arn |-> <<>>, GroupName |-> <<>>, Description |-> <<>>]

\* CreateGroupOutput: the Group echoed by the service, whose GroupName may be
\* nil (aws.StringValue of nil is the empty string), or an error.  Create
\* reads the echoed GroupName only.
CreateAnswers ==
    {[outcome |-> "ok", Group |-> [Arn |-> a, GroupName |-> g, Description |-> <<>>]] :
        a \in Arns, g \in ConfigGroupNames \cup {<<>>}}
    \cup {[outcome |-> o, Group |-> NoGroup] : o \in Failures}

\* DescribeGroupOutput, or an error.
DescribeAnswers ==
    {[outcome |-> "ok", Group |-> [Arn |-> a, GroupName |-> g, Description |-> x]] :
        a \in Arns, g \in ConfigGroupNames, x \in Descriptions}
    \cup {[outcome |-> o, Group |-> NoGroup] : o \in Failures}

\* UpdateGroupOutput (discarded) / DeleteGroupOutput, or an error.
AckAnswers == {[outcome |-> o, Group |-> NoGroup] : o \in {"ok"} \cup Failures}

\* Identifiers `terraform import` may hand over: any non-empty string.
ImportIDs == StringsUpTo({"a", Sep}, MaxIdLen) \ {<<>>}

NoAttrs ==
    [arn |-> <<>>, aws_account_id |-> <<>>, group_name |-> <<>>,
     description |-> <<>>, namespace |-> <<>>]

\* The ResourceData of a planned create: the configuration with defaults applied.
PlannedAttrs(c) ==
    [arn |-> <<>>, aws_account_id |-> c.aws_account_id, group_name |-> c.group_name,
     description |-> c.description, namespace |-> NamespaceOrDefault(c.namespace)]

Request(api, a, n, g, x) ==
    [api |-> api, AwsAccountId |-> a, Namespace |-> n, GroupName |-> g, Description |-> x]

-----------------------------------------------------------------------------
(* The handlers, as functions of the ResourceData d = [id, attrs, isNew]   *)
(* and of the answers of the remote calls they issue.  Each yields the     *)
(* ResourceData's identifier and attributes on return, whether the         *)
(* diagnostics hold an error, the remote calls issued (request and         *)
(* answer) and the GroupParseID calls made (input and output).             *)

\* resourceGroupRead without the drift branch: not-found is reported like
\* any other failure.
resourceGroupRead_NoDrift(d, describeAns) ==
    LET p == GroupParseID(d.id)
        parsed == <<[in |-> d.id, out |-> p]>>
        call == [req |-> Request("DescribeGroup", p.awsAccountID, p.namespace, p.groupName, <<>>),
                 ans |-> describeAns]
    IN  IF p.err
        THEN [id |-> d.id, attrs |-> d.attrs, err |-> TRUE, calls |-> <<>>, parsed |-> parsed]
        ELSE IF describeAns.outcome # "ok"
        THEN [id |-> d.id, attrs |-> d.attrs, err |-> TRUE, calls |-> <<call>>,
              parsed |-> parsed]
        ELSE [id |-> d.id,
              attrs |-> [arn |-> describeAns.Group.Arn,
                         aws_account_id |-> p.awsAccountID,
                         group_name |-> describeAns.Group.GroupName,
                         description |-> describeAns.Group.Description,
                         namespace |-> p.namespace],
              err |-> FALSE, calls |-> <<call>>, parsed |-> parsed]

\* resourceGroupRead without the IsNewResource test: not-found always clears
\* the identifier.
resourceGroupRead_IgnoreNew(d, describeAns) ==
    LET p == GroupParseID(d.id)
        parsed == <<[in |-> d.id, out |-> p]>>
        call == [req |-> Request("DescribeGroup", p.awsAccountID, p.namespace, p.groupName, <<>>),
                 ans |-> describeAns]
    IN  IF p.err
        THEN [id |-> d.id, attrs |-> d.attrs, err |-> TRUE, calls |-> <<>>, parsed |-> parsed]
        ELSE IF describeAns.outcome = NotFound
        THEN [id |-> <<>>, attrs |-> d.attrs, err |-> FALSE, calls |-> <<call>>,
              parsed |-> parsed]
        ELSE IF describeAns.outcome # "ok"
        THEN [id |-> d.id, attrs |-> d.attrs, err |-> TRUE, calls |-> <<call>>,
              parsed |-> parsed]
        ELSE [id |-> d.id,
              attrs |-> [arn |-> describeAns.Group.Arn,
                         aws_account_id |-> p.awsAccountID,
                         group_name |-> describeAns.Group.GroupName,
                         description |-> describeAns.Group.Description,
                         namespace |-> p.namespace],
              err |-> FALSE, calls |-> <<call>>, parsed |-> parsed]

\* resourceGroupRead recomputing the identifier from the describe response.
resourceGroupRead_Recompute(d, describeAns) ==
    LET p == GroupParseID(d.id)
        parsed == <<[in |-> d.id, out |-> p]>>
        call == [req |-> Request("DescribeGroup", p.awsAccountID, p.namespace, p.groupName, <<>>),
                 ans |-> describeAns]
    IN  IF p.err
        THEN [id |-> d.id, attrs |-> d.attrs, err |-> TRUE, calls |-> <<>>, parsed |-> parsed]
        ELSE IF ~d.isNew /\ describeAns.outcome = NotFound
        THEN [id |-> <<>>, attrs |-> d.attrs, err |-> FALSE, calls |-> <<call>>,
              parsed |-> parsed]
        ELSE IF describeAns.outcome # "ok"
        THEN [id |-> d.id, attrs |-> d.attrs, err |-> TRUE, calls |-> <<call>>,
              parsed |-> parsed]
        ELSE [id |-> SprintfID(p.awsAccountID, p.namespace, describeAns.Group.GroupName),
              attrs |-> [arn |-> describeAns.Group.Arn,
                         aws_account_id |-> p.awsAccountID,
                         group_name |-> describeAns.Group.GroupName,
                         description |-> describeAns.Group.Description,
                         namespace |-> p.namespace],
              err |-> FALSE, calls |-> <<call>>, parsed |-> parsed]

resourceGroupRead(d, describeAns) ==
    LET p == GroupParseID(d.id)
        parsed == <<[in |-> d.id, out |-> p]>>
        call == [req |-> Request("DescribeGroup", p.awsAccountID, p.namespace, p.groupName, <<>>),
                 ans |-> describeAns]
    IN  IF p.err
        THEN [id |-> d.id, attrs |-> d.attrs, err |-> TRUE, calls |-> <<>>, parsed |-> parsed]
        ELSE IF ~d.isNew /\ describeAns.outcome = NotFound
        THEN [id |-> <<>>, attrs |-> d.attrs, err |-> FALSE, calls |-> <<call>>,
              parsed |-> parsed]
        ELSE IF describeAns.outcome # "ok"
        THEN [id |-> d.id, attrs |-> d.attrs, err |-> TRUE, calls |-> <<call>>,
              parsed |-> parsed]
        ELSE [id |-> d.id,
              attrs |-> [arn |-> describeAns.Group.Arn,
                         aws_account_id |-> p.awsAccountID,
                         group_name |-> describeAns.Group.GroupName,
                         description |-> describeAns.Group.Description,
                         namespace |-> p.namespace],
              err |-> FALSE, calls |-> <<call>>, parsed |-> parsed]

\* resourceGroupCreate that always uses the provider's account.
resourceGroupCreate_ProviderAccount(d, createAns, describeAns) ==
    LET awsAccountID == MetaAccountID
        namespace == d.attrs.namespace
        call == [req |-> Request("CreateGroup", awsAccountID, namespace,
                                 d.attrs.group_name, d.attrs.description),
                 ans |-> createAns]
    IN  IF createAns.outcome # "ok"
        THEN [id |-> d.id, attrs |-> d.attrs, err |-> TRUE, calls |-> <<call>>,
              parsed |-> <<>>]
        ELSE LET newId == SprintfID(awsAccountID, namespace, createAns.Group.GroupName)
                 r == resourceGroupRead([d EXCEPT !.id = newId], describeAns)
             IN  [r EXCEPT !.calls = <<call>> \o r.calls]

\* resourceGroupCreate that stores the identifier before the create call,
\* from the configured group name.
resourceGroupCreate_SetIdFirst(d, createAns, describeAns) ==
    LET awsAccountID == IF d.attrs.aws_account_id # <<>> THEN d.attrs.aws_account_id
                        ELSE MetaAccountID
        namespace == d.attrs.namespace
        call == [req |-> Request("CreateGroup", awsAccountID, namespace,
                                 d.attrs.group_name, d.attrs.description),
                 ans |-> createAns]
        earlyId == SprintfID(awsAccountID, namespace, d.attrs.group_name)
    IN  IF createAns.outcome # "ok"
        THEN [id |-> earlyId, attrs |-> d.attrs, err |-> TRUE, calls |-> <<call>>,
              parsed |-> <<>>]
        ELSE LET newId == SprintfID(awsAccountID, namespace, createAns.Group.GroupName)
                 r == resourceGroupRead([d EXCEPT !.id = newId], describeAns)
             IN  [r EXCEPT !.calls = <<call>> \o r.calls]

resourceGroupCreate(d, createAns, describeAns) ==
    LET awsAccountID == IF d.attrs.aws_account_id # <<>> THEN d.attrs.aws_account_id
                        ELSE MetaAccountID
        namespace == d.attrs.namespace
        call == [req |-> Request("CreateGroup", awsAccountID, namespace,
                                 d.attrs.group_name, d.attrs.description),
                 ans |-> createAns]
    IN  IF createAns.outcome # "ok"
        THEN [id |-> d.id, attrs |-> d.attrs, err |-> TRUE, calls |-> <<call>>,
              parsed |-> <<>>]
        ELSE LET newId == SprintfID(awsAccountID, namespace, createAns.Group.GroupName)
                 r == resourceGroupRead([d EXCEPT !.id = newId], describeAns)
             IN  [r EXCEPT !.calls = <<call>> \o r.calls]

resourceGroupUpdate(d, updateAns, describeAns) ==
    LET p == GroupParseID(d.id)
        parsed == <<[in |-> d.id, out |-> p]>>
        call == [req |-> Request("UpdateGroup", p.awsAccountID, p.namespace, p.groupName,
                                 d.attrs.description),
                 ans |-> updateAns]
    IN  IF p.err
        THEN [id |-> d.id, attrs |-> d.attrs, err |-> TRUE, calls |-> <<>>, parsed |-> parsed]
        ELSE IF updateAns.outcome # "ok"
        THEN [id |-> d.id, attrs |-> d.attrs, err |-> TRUE, calls |-> <<call>>,
              parsed |-> parsed]
        ELSE LET r == resourceGroupRead(d, describeAns)
             IN  [r EXCEPT !.calls = <<call>> \o r.calls, !.parsed = parsed \o r.parsed]

\* resourceGroupDelete reporting not-found like any other failure.
resourceGroupDelete_Strict(d, deleteAns) ==
    LET p == GroupParseID(d.id)
        parsed == <<[in |-> d.id, out |-> p]>>
        call == [req |-> Request("DeleteGroup", p.awsAccountID, p.namespace, p.groupName, <<>>),
                 ans |-> deleteAns]
    IN  IF p.err
        THEN [id |-> d.id, attrs |-> d.attrs, err |-> TRUE, calls |-> <<>>, parsed |-> parsed]
        ELSE IF deleteAns.outcome # "ok"
        THEN [id |-> d.id, attrs |-> d.attrs, err |-> TRUE, calls |-> <<call>>,
              parsed |-> parsed]
        ELSE [id |-> d.id, attrs |-> d.attrs, err |-> FALSE, calls |-> <<call>>,
              parsed |-> parsed]

\* resourceGroupDelete that does not stop on a GroupParseID error.
resourceGroupDelete_NoParseCheck(d, deleteAns) ==
    LET p == GroupParseID(d.id)
        parsed == <<[in |-> d.id, out |-> p]>>
        call == [req |-> Request("DeleteGroup", p.awsAccountID, p.namespace, p.groupName, <<>>),
                 ans |-> deleteAns]
    IN  IF deleteAns.outcome # "ok" /\ deleteAns.outcome # NotFound
        THEN [id |-> d.id, attrs |-> d.attrs, err |-> TRUE, calls |-> <<call>>,
              parsed |-> parsed]
        ELSE [id |-> d.id, attrs |-> d.attrs, err |-> p.err, calls |-> <<call>>,
              parsed |-> parsed]

resourceGroupDelete(d, deleteAns) ==
    LET p == GroupParseID(d.id)
        parsed == <<[in |-> d.id, out |-> p]>>
        call == [req |-> Request("DeleteGroup", p.awsAccountID, p.namespace, p.groupName, <<>>),
                 ans |-> deleteAns]
    IN  IF p.err
        THEN [id |-> d.id, attrs |-> d.attrs, err |-> TRUE, calls |-> <<>>, parsed |-> parsed]
        ELSE IF deleteAns.outcome # "ok" /\ deleteAns.outcome # NotFound
        THEN [id |-> d.id, attrs |-> d.attrs, err |-> TRUE, calls |-> <<call>>,
              parsed |-> parsed]
        ELSE [id |-> d.id, attrs |-> d.attrs, err |-> FALSE, calls |-> <<call>>,
              parsed |-> parsed]

\* schema.ImportStatePassthroughContext: the identifier is taken verbatim.
ImportStatePassthrough(importId) == importId

-----------------------------------------------------------------------------
(* The state machine: the framework validates the configuration, then      *)
(* runs the handlers on the resource's ResourceData.                       *)

NoRun ==
    [op |-> "none", preId |-> <<>>, preAttrs |-> NoAttrs, isNew |-> FALSE,
     err |-> FALSE, calls |-> <<>>, parsed |-> <<>>]

Init ==
    /\ cfg \in Configs
    /\ phase = "configured"
    /\ id = <<>>
    /\ attrs = NoAttrs
    /\ origin = "none"
    /\ createdId = <<>>
    /\ anyCall = FALSE
    /\ last = NoRun

\* What a handler run leaves behind.
Ran(op, d, r) ==
    /\ id' = r.id
    /\ attrs' = r.attrs
    /\ anyCall' = (anyCall \/ r.calls # <<>>)
    /\ last' = [op |-> op, preId |-> d.id, preAttrs |-> d.attrs, isNew |-> d.isNew,
                err |-> r.err, calls |-> r.calls, parsed |-> r.parsed]

\* The framework runs the schema's ValidateFunc on the configuration before
\* it plans or applies anything.
Validate ==
    /\ phase = "configured"
    /\ phase' = IF NamespaceValidateFunc(cfg.namespace) THEN "planned" ELSE "rejected"
    /\ UNCHANGED <<cfg, id, attrs, origin, createdId, anyCall, last>>

\* Apply of a resource with no stored identifier: the framework marks the
\* ResourceData as new and calls resourceGroupCreate.
Create ==
    /\ phase = "planned"
    /\ id = <<>>
    /\ \E createAns \in CreateAnswers, describeAns \in DescribeAnswers :
          LET d == [id |-> <<>>, attrs |-> PlannedAttrs(cfg), isNew |-> TRUE]
              r == resourceGroupCreate(d, createAns, describeAns)
          IN  /\ Ran("Create", d, r)
              /\ origin' = IF r.id # <<>> THEN "create" ELSE origin
              /\ createdId' = IF r.id # <<>> THEN r.id ELSE createdId
    /\ UNCHANGED <<cfg, phase>>

\* terraform import: the identifier is stored verbatim; Read follows as a
\* separate handler call.
Import ==
    /\ phase = "planned"
    /\ id = <<>>
    /\ origin = "none"
    /\ \E importId \in ImportIDs :
          /\ id' = ImportStatePassthrough(importId)
          /\ createdId' = ImportStatePassthrough(importId)
    /\ origin' = "import"
    /\ attrs' = NoAttrs
    /\ last' = [NoRun EXCEPT !.op = "Import"]
    /\ UNCHANGED <<cfg, phase, anyCall>>

\* Refresh of a stored resource (the framework skips resources whose
\* identifier is blank).
Read ==
    /\ phase = "planned"
    /\ id # <<>>
    /\ \E describeAns \in DescribeAnswers :
          LET d == [id |-> id, attrs |-> attrs, isNew |-> FALSE]
          IN  Ran("Read", d, resourceGroupRead(d, describeAns))
    /\ UNCHANGED <<cfg, phase, origin, createdId>>

\* Apply of an in-place change: only description is not ForceNew.
Update ==
    /\ phase = "planned"
    /\ id # <<>>
    /\ \E description \in Descriptions, updateAns \in AckAnswers, describeAns \in DescribeAnswers :
          LET d == [id |-> id, attrs |-> [attrs EXCEPT !.description = description],
                    isNew |-> FALSE]
          IN  /\ Ran("Update", d, resourceGroupUpdate(d, updateAns, describeAns))
              /\ cfg' = [cfg EXCEPT !.description = description]
    /\ UNCHANGED <<phase, origin, createdId>>

\* Destroy of a stored resource.  The handler leaves the ResourceData alone.
Delete ==
    /\ phase = "planned"
    /\ id # <<>>
    /\ \E deleteAns \in AckAnswers :
          LET d == [id |-> id, attrs |-> attrs, isNew |-> FALSE]
          IN  Ran("Delete", d, resourceGroupDelete(d, deleteAns))
    /\ UNCHANGED <<cfg, phase, origin, createdId>>

Next == Validate \/ Create \/ Import \/ Read \/ Update \/ Delete

Spec == Init /\ [][Next]_vars

-----------------------------------------------------------------------------
(* Vocabulary of the properties, defined on the characters of a string     *)
(* and not through SplitN.                                                 *)

Handlers == {"Create", "Read", "Update", "Delete"}

Slashes(s) == {i \in 1..Len(s) : s[i] = Sep}

\* Positions of the first and of the second "/" (for a string that has them).
Slash1(s) == CHOOSE i \in Slashes(s) : \A j \in Slashes(s) : i <= j
Slash2(s) == CHOOSE i \in Slashes(s) \ {Slash1(s)} : \A j \in Slashes(s) \ {Slash1(s)} : i <= j

\* s consists of exactly three non-empty "/"-separated segments.
ThreeSegments(s) ==
    /\ Cardinality(Slashes(s)) = 2
    /\ Len(s) > 0
    /\ 1 \notin Slashes(s)
    /\ Len(s) \notin Slashes(s)
    /\ \A i \in Slashes(s) : i + 1 \notin Slashes(s)

\* What precedes the first "/", lies between the first two, follows the second.
Segment1(s) == SubSeq(s, 1, Slash1(s) - 1)
Segment2(s) == SubSeq(s, Slash1(s) + 1, Slash2(s) - 1)
Remainder(s) == SubSeq(s, Slash2(s) + 1, Len(s))

\* The GroupParseID calls and the remote calls of the last handler run.
Parses == {last.parsed[k] : k \in 1..Len(last.parsed)}
Calls == {last.calls[k] : k \in 1..Len(last.calls)}

\* A failure of a remote call that no handler tolerates: every failure but
\* not-found on delete and not-found on the describe of a resource that is
\* not new.
Fatal(call) ==
    /\ call.ans.outcome # "ok"
    /\ ~(call.req.api = "DeleteGroup" /\ call.ans.outcome = NotFound)
    /\ ~(call.req.api = "DescribeGroup" /\ call.ans.outcome = NotFound /\ ~last.isNew)

\* The identifier Create builds from its create call.
BuiltId(call) ==
    call.req.AwsAccountId \o <<"/">> \o call.req.Namespace \o <<"/">> \o call.ans.Group.GroupName

-----------------------------------------------------------------------------
\* C1: identifier round trip.  Whenever a handler hands GroupParseID a string
\* "A/N/G" whose A, N and G are non-empty and free of "/" (the format Create
\* stores), the result is exactly (A, N, G) with a nil error.
IdentifierRoundTrip ==
    \A e \in Parses :
        ThreeSegments(e.in) =>
            e.out = [err |-> FALSE, awsAccountID |-> Segment1(e.in),
                     namespace |-> Segment2(e.in), groupName |-> Remainder(e.in)]

\* Create stored a three-segment identifier and the Read that follows parsed it.
IdentifierRoundTripWitness ==
    /\ last.op = "Create"
    /\ Len(last.parsed) = 1
    /\ ThreeSegments(last.parsed[1].in)
    /\ last.parsed[1].in = id
    /\ ~last.parsed[1].out.err

\* C2 as stated: GroupParseID returns an error for every string that does not
\* consist of exactly three non-empty "/"-separated segments.
MalformedRejectedAsStated ==
    \A e \in Parses : ~ThreeSegments(e.in) => e.out.err

\* C2, amended: GroupParseID returns an error exactly for the strings with
\* fewer than two "/" characters and those in which the part before the first
\* "/", the part between the first two "/" or everything after the second "/"
\* is empty.  Further "/" characters after the second belong to the group name.
MalformedRejected ==
    \A e \in Parses :
        e.out.err <=>
            \/ Cardinality(Slashes(e.in)) < 2
            \/ Segment1(e.in) = <<>>
            \/ Segment2(e.in) = <<>>
            \/ Remainder(e.in) = <<>>

\* A handler was stopped by an identifier with two "/" and an empty segment.
MalformedRejectedWitness ==
    /\ last.op \in {"Read", "Update", "Delete"}
    /\ Len(last.parsed) = 1
    /\ Cardinality(Slashes(last.parsed[1].in)) >= 2
    /\ last.parsed[1].out.err

\* C3: read drift clears state.  A Read of a resource that is not new, with an
\* identifier GroupParseID accepts, whose describe call answers not-found ends
\* with the identifier empty, no error diagnostic and every attribute as it was.
ReadDriftClearsState ==
    (/\ last.op = "Read"
     /\ ~last.isNew
     /\ ~GroupParseID(last.preId).err
     /\ \E c \in Calls : c.req.api = "DescribeGroup" /\ c.ans.outcome = NotFound)
    => (id = <<>> /\ ~last.err /\ attrs = last.preAttrs)

ReadDriftClearsStateWitness ==
    /\ last.op = "Read"
    /\ ~last.isNew
    /\ Len(last.calls) = 1
    /\ last.calls[1].ans.outcome = NotFound
    /\ last.preId # <<>>
    /\ last.preAttrs # NoAttrs
    /\ id = <<>>

\* C4: idempotent delete.  A Delete with an identifier GroupParseID accepts
\* returns an error diagnostic exactly when the delete call fails with
\* something other than not-found, and it leaves the identifier stored, so
\* that deleting again behaves the same.
IdempotentDelete ==
    (last.op = "Delete" /\ ~GroupParseID(last.preId).err)
    => /\ Len(last.calls) = 1
       /\ last.calls[1].req.api = "DeleteGroup"
       /\ last.err <=> last.calls[1].ans.outcome \notin {"ok", NotFound}
       /\ id = last.preId

IdempotentDeleteWitness ==
    /\ last.op = "Delete"
    /\ Len(last.calls) = 1
    /\ last.calls[1].ans.outcome = NotFound
    /\ ~last.err

\* C5: create-then-read consistency.  After a Create that returned no error
\* the identifier is the resolved account id (the configured one if set, else
\* the provider's), the namespace and the group name echoed by the create
\* response, joined by "/"; with namespace omitted from the configuration the
\* identifier's namespace segment and the namespace attribute are "default".
CreateThenReadConsistency ==
    (last.op = "Create" /\ ~last.err)
    => /\ id = (IF cfg.aws_account_id # <<>> THEN cfg.aws_account_id ELSE MetaAccountID)
               \o <<"/">>
               \o (IF cfg.namespace.set THEN cfg.namespace.val
                   ELSE <<"d", "e", "f", "a", "u", "l", "t">>)
               \o <<"/">>
               \o last.calls[1].ans.Group.GroupName
       /\ ~cfg.namespace.set =>
             /\ Segment2(id) = <<"d", "e", "f", "a", "u", "l", "t">>
             /\ attrs.namespace = <<"d", "e", "f", "a", "u", "l", "t">>

CreateThenReadConsistencyWitness ==
    /\ last.op = "Create"
    /\ ~last.err
    /\ ~cfg.namespace.set
    /\ cfg.aws_account_id # <<>>
    /\ attrs.arn # <<>>

\* C6 as stated: whenever a remote call of a handler fails with an error the
\* handler does not tolerate, the handler returns an error diagnostic and the
\* identifier and the attributes are as they were when the handler started.
NoPartialStateAsStated ==
    (last.op \in Handlers /\ \E c \in Calls : Fatal(c))
    => (last.err /\ id = last.preId /\ attrs = last.preAttrs)

\* C6, amended: whenever a remote call of a handler fails with an error the
\* handler does not tolerate, the handler returns an error diagnostic and the
\* attributes are as they were when the handler started; so is the identifier,
\* except when it is the describe call that follows a successful create call
\* that fails: then the identifier Create built from the create response stays
\* stored.  A Create whose create call fails leaves the identifier empty.
NoPartialState ==
    (last.op \in Handlers /\ \E c \in Calls : Fatal(c))
    => /\ last.err
       /\ attrs = last.preAttrs
       /\ IF last.op = "Create" /\ last.calls[1].ans.outcome = "ok"
          THEN id = BuiltId(last.calls[1])
          ELSE id = last.preId
       /\ (last.op = "Create" /\ last.calls[1].ans.outcome # "ok") => id = <<>>

\* A Create whose create call succeeded and whose describe call failed.
NoPartialStateWitness ==
    /\ last.op = "Create"
    /\ Len(last.calls) = 2
    /\ last.calls[1].ans.outcome = "ok"
    /\ Fatal(last.calls[2])
    /\ last.err
    /\ id # <<>>

\* C7: namespace validation.  A configured namespace with a character outside
\* [a-zA-Z0-9._-], of length 0 or of length above 63 is rejected, and no
\* remote call and no handler run ever happens for it; a namespace of length
\* 1 to 63 made of allowed characters is accepted.
NamespaceValidation ==
    LET v == cfg.namespace.val
        good == Len(v) >= 1 /\ Len(v) <= 63 /\ \A i \in 1..Len(v) : v[i] \in NamespaceChars
    IN  cfg.namespace.set =>
           /\ phase # "configured" => (phase = "planned" <=> good)
           /\ ~good => (~anyCall /\ last.op = "none" /\ id = <<>>)

NamespaceValidationWitness ==
    /\ phase = "rejected"
    /\ cfg.namespace.set
    /\ Len(cfg.namespace.val) > 63

\* C8: identifier stability.  Once Create has stored the identifier it is, after
\* any Read, Update and Delete, that string or empty; Read, Update and Delete
\* never write a non-empty identifier; and every describe, update and delete
\* request carries the three segments GroupParseID yields for the identifier
\* that was stored when the handler started.
IdentifierStability ==
    /\ origin = "create" => id \in {createdId, <<>>}
    /\ last.op \in {"Read", "Update", "Delete"} =>
          /\ id \in {last.preId, <<>>}
          /\ \A c \in Calls :
                LET p == GroupParseID(last.preId)
                IN  /\ ~p.err
                    /\ c.req.AwsAccountId = p.awsAccountID
                    /\ c.req.Namespace = p.namespace
                    /\ c.req.GroupName = p.groupName

\* An Update of a created resource that went through both of its calls.
IdentifierStabilityWitness ==
    /\ origin = "create"
    /\ last.op = "Update"
    /\ Len(last.calls) = 2
    /\ ~last.err
    /\ id = createdId
    /\ attrs.group_name # GroupParseID(id).groupName

\* C9: not-found on a freshly created resource is an error, not drift.  When
\* the describe call that follows a successful create call answers not-found,
\* the identifier Create stored stays and Create returns an error diagnostic;
\* a handler leaves the identifier empty after a describe call only when the
\* resource is not new and the call answered not-found.
NotFoundOnNewIsError ==
    /\ (/\ last.op = "Create"
        /\ \E c \in Calls : c.req.api = "DescribeGroup" /\ c.ans.outcome = NotFound)
       => (last.err /\ id # <<>> /\ id = BuiltId(last.calls[1]))
    /\ (/\ last.op \in Handlers
        /\ id = <<>>
        /\ \E c \in Calls : c.req.api = "DescribeGroup")
       => (~last.isNew /\ last.calls[Len(last.calls)].ans.outcome = NotFound)

NotFoundOnNewIsErrorWitness ==
    /\ last.op = "Create"
    /\ last.isNew
    /\ Len(last.calls) = 2
    /\ last.calls[2].ans.outcome = NotFound
    /\ last.err

\* C10: a malformed identifier stops the handler before the network.  When
\* GroupParseID rejects the stored identifier, Read, Update and Delete return
\* an error diagnostic, issue no remote call and leave the identifier and the
\* attributes as they were.
MalformedStopsHandler ==
    (last.op \in {"Read", "Update", "Delete"} /\ GroupParseID(last.preId).err)
    => (last.err /\ last.calls = <<>> /\ id = last.preId /\ attrs = last.preAttrs)

\* A Delete stopped by an identifier that Import passed through.
MalformedStopsHandlerWitness ==
    /\ origin = "import"
    /\ last.op = "Delete"
    /\ GroupParseID(last.preId).err
    /\ last.err
    /\ last.calls = <<>>

====
